---- MODULE Spec2Model ----
(***************************************************************************)
(* Model of compare_sha384.py: the SHA-384 differential-testing harness.   *)
(*                                                                         *)
(* Text is modelled as a sequence of one-character strings, bytes as       *)
(* sequences of integers in 0..255.  Unbounded Python integers built from  *)
(* bytes are kept as their canonical big-endian base-256 digit sequence    *)
(* (no leading zero digit), so that formatting them is a real conversion.  *)
(***************************************************************************)
EXTENDS Integers, Sequences, FiniteSets, TLC

VARIABLES
    pc,                \* position of the running function
    data,              \* pad_message: argument
    padded,            \* pad_message: result
    count,             \* main: args.count
    test_cases,        \* main: list of (name, blocks, py_hash)
    vectors_file,      \* lines of test_vectors.txt, or NoFile
    baseline_tb,       \* sha384_file_tb.vhd exists
    fast_tb,           \* sha384_fast_file_tb.vhd exists
    impl,              \* run_vhdl_test: variant being driven
    calls,             \* subprocess.run invocations so far, in order
    baseline_results,  \* main: result dict of the baseline variant
    fast_results,      \* main: result dict of the fast variant
    statuses,          \* main: the per-test status values of the summary loop
    stdout,            \* main: the lines printed that matter downstream
    exit_code,         \* process exit status, NotExited while running
    output,            \* run_vhdl_test: captured stdout + stderr of the run phase
    line_no,           \* run_vhdl_test: index of the next line of the parse loop
    results            \* run_vhdl_test: the dict built by the parse loop

vars == << pc, data, padded, count, test_cases, vectors_file, baseline_tb,
           fast_tb, impl, calls, baseline_results, fast_results, statuses,
           stdout, exit_code, output, line_no, results >>

padVars == << data, padded >>
mainVars == << count, test_cases, vectors_file, baseline_tb, fast_tb, impl,
               calls, baseline_results, fast_results, statuses, stdout,
               exit_code >>
parseVars == << output, line_no, results >>

----------------------------------------------------------------------------
(* Bounds of the model *)

MaxLen == 240       \* longest message handed to pad_message on its own
MaxCount == 2       \* largest --count
MaxFrags == 5       \* most fragments in the simulator output given to the parser

(* Constants of the program *)

BlockSize == 128
LenOffset == 112
WordBytes == 8
HexWidth == 16
DigestLen == 96
PadMarker == 128    \* 0x80

----------------------------------------------------------------------------
(* Generic helpers on sequences *)

Last(s) == s[Len(s)]
Front(s) == SubSeq(s, 1, Len(s) - 1)
Drop(s, n) == SubSeq(s, n + 1, Len(s))
Repeat(x, n) == [i \in 1..n |-> x]

RECURSIVE Concat(_)
Concat(ss) == IF ss = << >> THEN << >> ELSE Head(ss) \o Concat(Tail(ss))

----------------------------------------------------------------------------
(* pad_message *)

\* int.to_bytes(k, 'big') for a value that fits in k bytes
RECURSIVE to_bytes(_, _)
to_bytes(v, k) ==
    IF k = 0 THEN << >> ELSE Append(to_bytes(v \div 256, k - 1), v % 256)

\* The while loop of pad_message appends one zero byte per iteration and
\* leaves at the first length for which its condition is false: the number
\* of iterations is the least i with that length.

\* the loop with the condition `(len(padded) % 128) < 112`
pad_zeros_wrong(p) ==
    LET stops(i) == ((Len(p) + i) % BlockSize) >= LenOffset
        n == CHOOSE i \in 0..(BlockSize - 1) :
                 stops(i) /\ \A j \in 0..(i - 1) : ~stops(j)
    IN  p \o Repeat(0, n)

\* the loop with the condition `(len(padded) % 128) != 112`
pad_zeros(p) ==
    LET stops(i) == ((Len(p) + i) % BlockSize) = LenOffset
        n == CHOOSE i \in 0..(BlockSize - 1) :
                 stops(i) /\ \A j \in 0..(i - 1) : ~stops(j)
    IN  p \o Repeat(0, n)

pad_message(d) ==
    LET msg_len == Len(d)
        bit_len == msg_len * 8
        p1 == Append(d, PadMarker)
        p2 == pad_zeros(p1)
        p3 == p2 \o to_bytes(0, WordBytes)
    IN  p3 \o to_bytes(bit_len, WordBytes)

\* os.urandom(length): a byte string of the given length; the model draws
\* it from a family indexed by a seed
Seeds == {0, 171}
urandom(length, seed) == [i \in 1..length |-> (seed + 37 * i) % 256]

Messages == { urandom(n, s) : n \in 0..MaxLen, s \in Seeds }

NoBytes == << >>

PadInit ==
    /\ pc = "pad_call"
    /\ data \in Messages
    /\ padded = NoBytes

PadCall ==
    /\ pc = "pad_call"
    /\ padded' = pad_message(data)
    /\ pc' = "pad_ret"
    /\ UNCHANGED << data >>

----------------------------------------------------------------------------
(* sha384_python *)

HexChars == << "0", "1", "2", "3", "4", "5", "6", "7",
               "8", "9", "a", "b", "c", "d", "e", "f" >>

\* hashlib.sha384(data).hexdigest() is a library call: the model keeps what
\* the harness relies on, a deterministic map from the message to 96
\* lowercase hex characters
sha384_python(d) ==
    LET h == (IF d = << >> THEN 0 ELSE d[1] + d[Len(d)]) + 3 * Len(d) + 5
    IN  [j \in 1..DigestLen |-> HexChars[((h * j + j \div 16) % 16) + 1]]

----------------------------------------------------------------------------
(* bytes_to_hex_words *)

Min(a, b) == IF a < b THEN a ELSE b

\* Python slice s[a:b] with 0-based a, b clamped to the sequence
Slice(s, a, b) == SubSeq(s, Min(a, Len(s)) + 1, Min(b, Len(s)))

RECURSIVE StripLeading(_, _)
StripLeading(s, z) ==
    IF s # << >> /\ Head(s) = z THEN StripLeading(Tail(s), z) ELSE s

\* int.from_bytes(bs, 'big'): the number, as its base-256 digits without
\* leading zeros
int_from_bytes(bs) == StripLeading(bs, 0)

\* the hex digits of a number, most significant first, "0" for zero
hex_digits(num) ==
    LET raw == [k \in 1..(2 * Len(num)) |->
                   IF k % 2 = 1 THEN HexChars[(num[(k + 1) \div 2] \div 16) + 1]
                   ELSE HexChars[(num[k \div 2] % 16) + 1]]
        sig == StripLeading(raw, "0")
    IN  IF sig = << >> THEN << "0" >> ELSE sig

\* f"{word:x}"
format_x(num) == hex_digits(num)

\* f"{word:016x}": zero-padded on the left to at least 16 characters
format_016x(num) ==
    LET digits == hex_digits(num)
    IN  IF Len(digits) >= HexWidth THEN digits
        ELSE Repeat("0", HexWidth - Len(digits)) \o digits

bytes_to_hex_words(d) ==
    [k \in 1..((Len(d) + WordBytes - 1) \div WordBytes) |->
        format_016x(int_from_bytes(Slice(d, WordBytes * (k - 1), WordBytes * k)))]

----------------------------------------------------------------------------
(* write_test_vectors *)

DecChars == << "0", "1", "2", "3", "4", "5", "6", "7", "8", "9" >>

\* f"{n}" for n >= 0
RECURSIVE DecStr(_)
DecStr(n) ==
    IF n < 10 THEN << DecChars[n + 1] >>
    ELSE Append(DecStr(n \div 10), DecChars[(n % 10) + 1])

\* the lines written for one test case, in the order of the list given
case_lines(tc) ==
    << DecStr(Len(tc.blocks)) >>
    \o Concat([b \in 1..Len(tc.blocks) |-> bytes_to_hex_words(tc.blocks[b])])
    \o [s \in 1..(DigestLen \div HexWidth) |->
           Slice(tc.py_hash, HexWidth * (s - 1), HexWidth * s)]

write_test_vectors(cases) ==
    << DecStr(Len(cases)) >>
    \o Concat([i \in 1..Len(cases) |-> case_lines(cases[i])])

----------------------------------------------------------------------------
(* main: test generation and the vector file *)

NoFile == << >>
NotExited == << >>
NotRun == [unset |-> TRUE]

GenLengths == {0, 111, 112}
GenSeeds == {171}

\* padded[j:j+128] for j in range(0, len(padded), 128)
split_blocks(p) ==
    [k \in 1..((Len(p) + BlockSize - 1) \div BlockSize) |->
        Slice(p, BlockSize * (k - 1), BlockSize * k)]

make_test_case(length, seed) ==
    LET d == urandom(length, seed)
    IN  [name |-> << "random", length >>,
         blocks |-> split_blocks(pad_message(d)),
         py_hash |-> sha384_python(d)]

MainInit ==
    /\ pc = "generate"
    /\ count \in 0..MaxCount
    /\ test_cases = << >>
    /\ vectors_file = NoFile
    /\ baseline_tb \in BOOLEAN
    /\ fast_tb \in BOOLEAN
    /\ impl = "none"
    /\ calls = << >>
    /\ baseline_results = NotRun
    /\ fast_results = NotRun
    /\ statuses = << >>
    /\ stdout = << >>
    /\ exit_code = NotExited

\* one iteration of the generation loop
GenerateTestCase ==
    /\ pc = "generate"
    /\ Len(test_cases) < count
    /\ \E length \in GenLengths, seed \in GenSeeds :
          test_cases' = Append(test_cases, make_test_case(length, seed))
    /\ UNCHANGED << pc, count, vectors_file, baseline_tb, fast_tb, impl, calls,
                    baseline_results, fast_results, statuses, stdout, exit_code >>

\* the same step with only the baseline test bench looked for
WriteVectorsBaselineOnly ==
    /\ pc = "generate"
    /\ Len(test_cases) = count
    /\ vectors_file' = write_test_vectors(test_cases)
    /\ IF ~baseline_tb
       THEN /\ stdout' = Append(stdout, [kind |-> "testbenches not found"])
            /\ exit_code' = << 1 >>
            /\ pc' = "exit"
            /\ impl' = impl
       ELSE /\ stdout' = Append(stdout, [kind |-> "Running", impl |-> "baseline"])
            /\ exit_code' = exit_code
            /\ pc' = "compile"
            /\ impl' = "baseline"
    /\ UNCHANGED << count, test_cases, baseline_tb, fast_tb, calls,
                    baseline_results, fast_results, statuses >>

\* the loop is over: write the vectors, then look for the test benches
WriteVectors ==
    /\ pc = "generate"
    /\ Len(test_cases) = count
    /\ vectors_file' = write_test_vectors(test_cases)
    /\ IF ~baseline_tb \/ ~fast_tb
       THEN /\ stdout' = Append(stdout, [kind |-> "testbenches not found"])
            /\ exit_code' = << 1 >>
            /\ pc' = "exit"
            /\ impl' = impl
       ELSE /\ stdout' = Append(stdout, [kind |-> "Running", impl |-> "baseline"])
            /\ exit_code' = exit_code
            /\ pc' = "compile"
            /\ impl' = "baseline"
    /\ UNCHANGED << count, test_cases, baseline_tb, fast_tb, calls,
                    baseline_results, fast_results, statuses >>

----------------------------------------------------------------------------
(* Text: str methods used by the result parser *)

UpperChars == << "A", "B", "C", "D", "E", "F", "G", "H", "I", "J", "K", "L", "M",
                 "N", "O", "P", "Q", "R", "S", "T", "U", "V", "W", "X", "Y", "Z" >>
LowerChars == << "a", "b", "c", "d", "e", "f", "g", "h", "i", "j", "k", "l", "m",
                 "n", "o", "p", "q", "r", "s", "t", "u", "v", "w", "x", "y", "z" >>
Whitespace == { " ", "\t", "\r", "\n" }

IndexIn(c, alphabet) ==
    IF \E k \in 1..Len(alphabet) : alphabet[k] = c
    THEN CHOOSE k \in 1..Len(alphabet) : alphabet[k] = c
    ELSE 0

LowerOf == [c \in { UpperChars[k] : k \in 1..Len(UpperChars) } |->
               LowerChars[IndexIn(c, UpperChars)]]
UpperOf == [c \in { LowerChars[k] : k \in 1..Len(LowerChars) } |->
               UpperChars[IndexIn(c, LowerChars)]]

lower_char(c) == IF c \in DOMAIN LowerOf THEN LowerOf[c] ELSE c
upper_char(c) == IF c \in DOMAIN UpperOf THEN UpperOf[c] ELSE c

\* str.lower, str.upper
lower(s) == [k \in 1..Len(s) |-> lower_char(s[k])]
upper(s) == [k \in 1..Len(s) |-> upper_char(s[k])]

\* str.strip
RECURSIVE lstrip(_)
lstrip(s) == IF s # << >> /\ Head(s) \in Whitespace THEN lstrip(Tail(s)) ELSE s
RECURSIVE rstrip(_)
rstrip(s) == IF s # << >> /\ Last(s) \in Whitespace THEN rstrip(Front(s)) ELSE s
strip(s) == rstrip(lstrip(s))

\* 1-based index of the first occurrence of tok in s, 0 when there is none
Find(s, tok) ==
    LET hits == { k \in 1..(Len(s) - Len(tok) + 1) :
                     SubSeq(s, k, k + Len(tok) - 1) = tok }
    IN  IF hits = {} THEN 0 ELSE CHOOSE k \in hits : \A j \in hits : k <= j

\* tok in s
Contains(s, tok) == Find(s, tok) > 0

\* s.split(sep) for a non-empty separator
RECURSIVE split(_, _)
split(s, sep) ==
    LET k == Find(s, sep)
    IN  IF k = 0 THEN << s >>
        ELSE << SubSeq(s, 1, k - 1) >> \o split(Drop(s, k + Len(sep) - 1), sep)

NewLine == << "\n" >>
TokPass == << "P", "A", "S", "S" >>
TokFail == << "F", "A", "I", "L" >>
TokHash == << "H", "a", "s", "h", ":" >>

----------------------------------------------------------------------------
(* run_vhdl_test: the result parser *)

EmptyResults == [passed |-> 0, failed |-> 0, hashes |-> << >>]

\* the body of the parse loop for one line, with every rule tried
parse_line_all_rules(r, line) ==
    LET r1 == IF Contains(line, TokPass)
              THEN [r EXCEPT !.passed = r.passed + 1] ELSE r
        r2 == IF Contains(line, TokFail)
              THEN [r1 EXCEPT !.failed = r1.failed + 1] ELSE r1
    IN  IF Contains(line, TokHash)
        THEN [r2 EXCEPT !.hashes =
                 Append(r2.hashes, lower(strip(split(line, TokHash)[2])))]
        ELSE r2

\* the body of the parse loop with the hash digest kept as printed
parse_line_keep_case(r, line) ==
    IF Contains(line, TokPass) THEN [r EXCEPT !.passed = r.passed + 1]
    ELSE IF Contains(line, TokFail) THEN [r EXCEPT !.failed = r.failed + 1]
    ELSE IF Contains(line, TokHash)
         THEN LET parts == split(line, TokHash)
              IN  IF Len(parts) > 1
                  THEN [r EXCEPT !.hashes = Append(r.hashes, strip(parts[2]))]
                  ELSE r
    ELSE r

\* the body of the parse loop for one line
parse_line(r, line) ==
    IF Contains(line, TokPass) THEN [r EXCEPT !.passed = r.passed + 1]
    ELSE IF Contains(line, TokFail) THEN [r EXCEPT !.failed = r.failed + 1]
    ELSE IF Contains(line, TokHash)
         THEN LET parts == split(line, TokHash)
              IN  IF Len(parts) > 1
                  THEN [r EXCEPT !.hashes =
                           Append(r.hashes, lower(strip(parts[2])))]
                  ELSE r
    ELSE r

RECURSIVE parse_lines(_, _)
parse_lines(r, ls) ==
    IF ls = << >> THEN r ELSE parse_lines(parse_line(r, Head(ls)), Tail(ls))

\* lines 93-106 as a whole
parse_output(text) == parse_lines(EmptyResults, split(text, NewLine))

----------------------------------------------------------------------------
(* The result parser on its own: one step per line of the captured text *)

Fragments == { TokPass, TokFail, TokHash, << " ", "A", "b", "\r" >>, NewLine }

\* the captured texts tried: every concatenation of at most n fragments
RECURSIVE FragTexts(_)
FragTexts(n) ==
    IF n = 0 THEN { << >> }
    ELSE FragTexts(n - 1)
         \cup { t \o f : t \in FragTexts(n - 1), f \in Fragments }

ParserTexts == FragTexts(MaxFrags)

ParseInit ==
    /\ pc = "parse"
    /\ output \in ParserTexts
    /\ line_no = 1
    /\ results = EmptyResults

\* one iteration of `for line in output.split('\n')`
ParseLine ==
    /\ pc = "parse"
    /\ line_no <= Len(split(output, NewLine))
    /\ results' = parse_line(results, split(output, NewLine)[line_no])
    /\ line_no' = line_no + 1
    /\ UNCHANGED << pc, output >>

\* the loop is over: return results
ParseReturn ==
    /\ pc = "parse"
    /\ line_no > Len(split(output, NewLine))
    /\ pc' = "parse_ret"
    /\ UNCHANGED << output, line_no, results >>

----------------------------------------------------------------------------
(* run_vhdl_test: the simulator driver *)

ErrTexts == { << "e", "1" >>, << "e", "2" >> }

\* one subprocess.run: the variant, the phase, how the subprocess ended and
\* the stderr text captured from a failed phase
Call(phase, status, stderr) ==
    [impl |-> impl, phase |-> phase, status |-> status, stderr |-> stderr]

\* what a phase may print on stderr, by the way it ended (the text of a
\* successful compile or elaborate is never read)
Captured(status) == IF status = "exit0" THEN { << >> } ELSE ErrTexts

\* run_vhdl_test returns r to main, which prints the variant's line and
\* goes on to the next variant or to the summary (lines 157-168)
Return(r) ==
    /\ stdout' = Append(stdout,
          IF "error" \in DOMAIN r
          THEN [kind |-> "ERROR", impl |-> impl]
          ELSE [kind |-> "Passed", impl |-> impl])
    /\ IF impl = "baseline"
       THEN /\ baseline_results' = r
            /\ fast_results' = fast_results
            /\ impl' = "fast"
            /\ pc' = "compile"
       ELSE /\ fast_results' = r
            /\ baseline_results' = baseline_results
            /\ impl' = impl
            /\ pc' = "summary"

\* the compile phase with its exit status ignored
CompileUnchecked ==
    /\ pc = "compile"
    /\ \E status \in { "exit0", "exit1" } : \E stderr \in Captured(status) :
          calls' = Append(calls, Call("compile", status, stderr))
    /\ pc' = "elaborate"
    /\ UNCHANGED << count, test_cases, vectors_file, baseline_tb, fast_tb,
                    statuses, exit_code, impl, baseline_results, fast_results,
                    stdout >>

\* nvc -a pkg design tb
Compile ==
    /\ pc = "compile"
    /\ \E status \in { "exit0", "exit1" } : \E stderr \in Captured(status) :
          /\ calls' = Append(calls, Call("compile", status, stderr))
          /\ IF status # "exit0"
             THEN Return([error |-> << "Compile failed", stderr >>])
             ELSE /\ pc' = "elaborate"
                  /\ UNCHANGED << impl, baseline_results, fast_results, stdout >>
    /\ UNCHANGED << count, test_cases, vectors_file, baseline_tb, fast_tb,
                    statuses, exit_code >>

\* nvc -e entity
Elaborate ==
    /\ pc = "elaborate"
    /\ \E status \in { "exit0", "exit1" } : \E stderr \in Captured(status) :
          /\ calls' = Append(calls, Call("elaborate", status, stderr))
          /\ IF status # "exit0"
             THEN Return([error |-> << "Elaborate failed", stderr >>])
             ELSE /\ pc' = "run"
                  /\ UNCHANGED << impl, baseline_results, fast_results, stdout >>
    /\ UNCHANGED << count, test_cases, vectors_file, baseline_tb, fast_tb,
                    statuses, exit_code >>

(* What the simulator may print for the test cases it was given *)

Lines(ls) == Concat([k \in 1..Len(ls) |-> ls[k] \o NewLine])

PassLine == << "T", "e", "s", "t", " " >> \o TokPass
FailLine == << "T", "e", "s", "t", " " >> \o TokFail
HashLine(h) == << " " >> \o TokHash \o << " " >> \o upper(h) \o << "\r" >>
WrongDigest(h) == [h EXCEPT ![1] = IF h[1] = "0" THEN "1" ELSE "0"]
JunkDigest == << "D", "E", "A", "D" >>

GoodGroup(tc) == << PassLine, HashLine(tc.py_hash) >>
FailGroup(tc) == << FailLine, HashLine(tc.py_hash) >>
WrongGroup(tc) == << FailLine, HashLine(WrongDigest(tc.py_hash)) >>

RunOutputs(cases) ==
    LET N == Len(cases)
        good == [i \in 1..N |-> GoodGroup(cases[i])]
    IN  { Lines(Concat(good)) }
        \cup { Lines(Concat([i \in 1..N |-> FailGroup(cases[i])])) }
        \cup { Lines(Concat([good EXCEPT ![k] = WrongGroup(cases[k])])) : k \in 1..N }
        \cup { Lines(Concat(SubSeq(good, 1, k))) : k \in 0..(N - 1) }
        \cup { Lines(Concat(good) \o << HashLine(JunkDigest), PassLine >>) }

\* nvc -r entity, with timeout=30; then the parse of its output
Run ==
    /\ pc = "run"
    /\ \E status \in { "exit0", "exit1", "timeout" } :
          /\ calls' = Append(calls, Call("run", status, << >>))
          /\ IF status = "timeout"
             THEN \* subprocess.TimeoutExpired is raised and nothing catches it
                  /\ pc' = "crashed"
                  /\ exit_code' = << 1 >>
                  /\ UNCHANGED << impl, baseline_results, fast_results, stdout >>
             ELSE /\ \E out \in RunOutputs(test_cases) : Return(parse_output(out))
                  /\ exit_code' = exit_code
    /\ UNCHANGED << count, test_cases, vectors_file, baseline_tb, fast_tb,
                    statuses >>

----------------------------------------------------------------------------
(* main: the summary *)

\* dict.get('hashes', [])
get_hashes(r) == IF "hashes" \in DOMAIN r THEN r.hashes ELSE << >>

\* the test with the digest comparison left out
variant_ok_any_hash(r, cases, i) == i < Len(get_hashes(r))

\* baseline_ok / fast_ok for the 0-based test index i
variant_ok(r, cases, i) ==
    /\ i < Len(get_hashes(r))
    /\ r.hashes[i + 1] = cases[i + 1].py_hash

\* the summary loop from index i on: << all_match, statuses >>
RECURSIVE summary_loop(_, _, _, _, _)
summary_loop(cases, b, f, i, acc) ==
    IF i >= Len(cases) THEN acc
    ELSE LET status == IF variant_ok(b, cases, i) /\ variant_ok(f, cases, i)
                       THEN "OK" ELSE "MISMATCH"
         IN  summary_loop(cases, b, f, i + 1,
                 [all_match |-> acc.all_match /\ status # "MISMATCH",
                  statuses |-> Append(acc.statuses, status)])

\* the summary with the parsed FAIL count also held against the variant
summarize_failed_counts(cases, b, f) ==
    LET s == summary_loop(cases, b, f, 0, [all_match |-> TRUE, statuses |-> << >>])
        clean(r) == "failed" \in DOMAIN r => r.failed = 0
        ok == /\ s.all_match /\ clean(b) /\ clean(f)
              /\ ~("error" \in DOMAIN b \/ "error" \in DOMAIN f)
    IN  [statuses |-> s.statuses,
         verdict |-> IF ok THEN "All implementations match!"
                     ELSE "Differences detected!",
         code |-> IF ok THEN 0 ELSE 1]

\* lines 175-196: the per-test statuses and the value main returns
summarize(cases, b, f) ==
    LET s == summary_loop(cases, b, f, 0, [all_match |-> TRUE, statuses |-> << >>])
        ok == s.all_match /\ ~("error" \in DOMAIN b \/ "error" \in DOMAIN f)
    IN  [statuses |-> s.statuses,
         verdict |-> IF ok THEN "All implementations match!"
                     ELSE "Differences detected!",
         code |-> IF ok THEN 0 ELSE 1]

Summary ==
    /\ pc = "summary"
    /\ LET s == summarize(test_cases, baseline_results, fast_results)
       IN  /\ statuses' = s.statuses
           /\ stdout' = Append(stdout, [kind |-> s.verdict])
           /\ exit_code' = << s.code >>
    /\ pc' = "exit"
    /\ UNCHANGED << count, test_cases, vectors_file, baseline_tb, fast_tb, impl,
                    calls, baseline_results, fast_results >>

----------------------------------------------------------------------------
(* Specifications *)

\* the whole harness
Init ==
    /\ MainInit
    /\ data = NoBytes /\ padded = NoBytes
    /\ output = << >> /\ line_no = 1 /\ results = EmptyResults

Next ==
    \/ GenerateTestCase /\ UNCHANGED << padVars, parseVars >>
    \/ WriteVectors /\ UNCHANGED << padVars, parseVars >>
    \/ Compile /\ UNCHANGED << padVars, parseVars >>
    \/ Elaborate /\ UNCHANGED << padVars, parseVars >>
    \/ Run /\ UNCHANGED << padVars, parseVars >>
    \/ Summary /\ UNCHANGED << padVars, parseVars >>

Spec == Init /\ [][Next]_vars

MainIdle ==
    /\ count = 0 /\ test_cases = << >> /\ vectors_file = NoFile
    /\ baseline_tb = TRUE /\ fast_tb = TRUE /\ impl = "none" /\ calls = << >>
    /\ baseline_results = NotRun /\ fast_results = NotRun
    /\ statuses = << >> /\ stdout = << >> /\ exit_code = NotExited

\* pad_message applied to each message of Messages
InitPad ==
    /\ PadInit
    /\ MainIdle
    /\ output = << >> /\ line_no = 1 /\ results = EmptyResults

NextPad == PadCall /\ UNCHANGED << mainVars, parseVars >>

SpecPad == InitPad /\ [][NextPad]_vars

\* the result parser applied to each text of ParserTexts
InitParse ==
    /\ ParseInit
    /\ MainIdle
    /\ data = NoBytes /\ padded = NoBytes

NextParse ==
    \/ ParseLine /\ UNCHANGED << mainVars, padVars >>
    \/ ParseReturn /\ UNCHANGED << mainVars, padVars >>

SpecParse == InitParse /\ [][NextParse]_vars

----------------------------------------------------------------------------
(* Vocabulary of the properties *)

AllMatch == "All implementations match!"
Differences == "Differences detected!"

VerdictPrinted ==
    stdout # << >> /\ Last(stdout).kind \in { AllMatch, Differences }
Verdict == Last(stdout).kind

ResultsOf(v) == IF v = "baseline" THEN baseline_results ELSE fast_results
HasError(r) == "error" \in DOMAIN r
CallsOf(v, phase) ==
    { k \in 1..Len(calls) : calls[k].impl = v /\ calls[k].phase = phase }

\* big-endian value of a byte string
RECURSIVE DecodeBE(_)
DecodeBE(bs) == IF bs = << >> THEN 0 ELSE DecodeBE(Front(bs)) * 256 + Last(bs)

\* the value of each lowercase hex digit
HexValue == [c \in { HexChars[k] : k \in 1..Len(HexChars) } |->
                IndexIn(c, HexChars) - 1]
IsLowerHexLine(l) ==
    Len(l) = 16 /\ \A k \in 1..Len(l) : l[k] \in DOMAIN HexValue
\* the bytes a 16-character hex line stands for
HexLineBytes(l) ==
    [j \in 1..8 |-> HexValue[l[2 * j - 1]] * 16 + HexValue[l[2 * j]]]

----------------------------------------------------------------------------
(* C1: pad_message(m) is m, then 0x80, then the k zero bytes (k the only   *)
(* value of 0..127 with n + 1 + k = 112 mod 128), then 8 zero bytes, then  *)
(* n*8 as 8 big-endian bytes; so its length is a multiple of 128 and at    *)
(* least n + 17, and its last 8 bytes decode to n*8.                       *)
C1_PadLayout ==
    pc = "pad_ret" =>
        LET n == Len(data)
            ks == { k \in 0..127 : (n + 1 + k) % 128 = 112 }
            k == CHOOSE x \in ks : TRUE
        IN  /\ Cardinality(ks) = 1
            /\ ((n + 1) % 128 = 112) => (k = 0)
            /\ Len(padded) = n + 1 + k + 16
            /\ SubSeq(padded, 1, n) = data
            /\ padded[n + 1] = 128
            /\ \A j \in (n + 2)..(n + 1 + k + 8) : padded[j] = 0
            /\ DecodeBE(SubSeq(padded, Len(padded) - 7, Len(padded))) = n * 8
            /\ Len(padded) % 128 = 0
            /\ Len(padded) >= n + 17

\* a message whose length plus one is already 112 mod 128 has been padded
C1_Witness ==
    /\ pc = "pad_ret"
    /\ Len(data) = 111
    /\ Len(padded) = 128
    /\ padded[112] = 128

----------------------------------------------------------------------------
(* C2: the vector file is the line T = N, then for each test case in list  *)
(* order one line B_i, 16*B_i word lines of 16 lowercase hex characters    *)
(* that read back as the block's bytes, and the 6 slices of 16 characters  *)
(* of the 96-character digest; and no other line.                          *)
RECURSIVE CaseOffset(_)
CaseOffset(i) ==
    IF i = 1 THEN 1
    ELSE CaseOffset(i - 1) + 1 + 16 * Len(test_cases[i - 1].blocks) + 6

C2_VectorFileLayout ==
    vectors_file # NoFile =>
        LET N == Len(test_cases)
        IN  /\ vectors_file[1] = DecStr(N)
            /\ Len(vectors_file) = CaseOffset(N + 1)
            /\ \A i \in 1..N :
                 LET tc == test_cases[i]
                     B == Len(tc.blocks)
                     at == CaseOffset(i)
                 IN  /\ vectors_file[at + 1] = DecStr(B)
                     /\ Len(tc.py_hash) = 96
                     /\ \A b \in 1..B : \A w \in 1..16 :
                          LET l == vectors_file[at + 1 + 16 * (b - 1) + w]
                          IN  /\ IsLowerHexLine(l)
                              /\ HexLineBytes(l) =
                                    SubSeq(tc.blocks[b], 8 * (w - 1) + 1, 8 * w)
                     /\ \A s \in 1..6 :
                          vectors_file[at + 1 + 16 * B + s] =
                              SubSeq(tc.py_hash, 16 * (s - 1) + 1, 16 * s)

\* a file for a two-block case followed by a one-block case
C2_Witness ==
    /\ vectors_file # NoFile
    /\ Len(test_cases) = 2
    /\ Len(test_cases[1].blocks) = 2
    /\ Len(test_cases[2].blocks) = 1
    /\ test_cases[1].py_hash # test_cases[2].py_hash

----------------------------------------------------------------------------
(* C3: per variant the phases run in the order compile, elaborate, run,    *)
(* each only right after the previous one exited with status zero and each *)
(* at most once; a failed compile gives the "Compile failed" error with    *)
(* the captured text and no elaborate or run, a failed elaborate gives the *)
(* "Elaborate failed" error and no run.                                    *)
C3_PhaseOrder ==
    /\ \A k \in 1..Len(calls) :
         LET c == calls[k]
             after(phase) ==
                 /\ k > 1
                 /\ calls[k - 1].impl = c.impl
                 /\ calls[k - 1].phase = phase
                 /\ calls[k - 1].status = "exit0"
         IN  /\ c.phase = "compile" => (k = 1 \/ calls[k - 1].impl # c.impl)
             /\ c.phase = "elaborate" => after("compile")
             /\ c.phase = "run" => after("elaborate")
             /\ (c.phase = "compile" /\ c.status # "exit0") =>
                   /\ HasError(ResultsOf(c.impl))
                   /\ ResultsOf(c.impl).error = << "Compile failed", c.stderr >>
                   /\ CallsOf(c.impl, "elaborate") = {}
                   /\ CallsOf(c.impl, "run") = {}
             /\ (c.phase = "elaborate" /\ c.status # "exit0") =>
                   /\ HasError(ResultsOf(c.impl))
                   /\ ResultsOf(c.impl).error = << "Elaborate failed", c.stderr >>
                   /\ CallsOf(c.impl, "run") = {}
    /\ \A v \in { "baseline", "fast" } :
         \A phase \in { "compile", "elaborate", "run" } :
            Cardinality(CallsOf(v, phase)) <= 1

\* the baseline compile failed and the fast elaborate failed
C3_Witness ==
    /\ \E k \in CallsOf("baseline", "compile") : calls[k].status = "exit1"
    /\ \E k \in CallsOf("fast", "elaborate") : calls[k].status = "exit1"
    /\ pc = "summary"

----------------------------------------------------------------------------
(* C4: a run phase that exceeds its timeout ends the driver in a Timeout   *)
(* state returned to main as that variant's error marker, neither the      *)
(* compile nor the elaborate error and never a completed result.           *)
C4_TimeoutReturned ==
    \A k \in 1..Len(calls) :
       (calls[k].phase = "run" /\ calls[k].status = "timeout") =>
          /\ pc # "crashed"
          /\ HasError(ResultsOf(calls[k].impl))
          /\ ResultsOf(calls[k].impl).error[1]
                \notin { "Compile failed", "Elaborate failed" }

----------------------------------------------------------------------------
(* C5: test i is OK iff for both variants i < len(hashes) and hashes[i] is *)
(* the reference digest of test i, otherwise MISMATCH; the verdict is      *)
(* "All implementations match!" with exit code 0 iff every test is OK and  *)
(* neither variant has an error marker, and otherwise "Differences         *)
(* detected!" with exit code 1.                                            *)
Agrees(r, i) ==
    /\ ~HasError(r)
    /\ i <= Len(r.hashes)
    /\ r.hashes[i] = test_cases[i].py_hash

C5_Reconcile ==
    VerdictPrinted =>
        LET N == Len(test_cases)
            allOK == \A i \in 1..N : statuses[i] = "OK"
            clean == ~HasError(baseline_results) /\ ~HasError(fast_results)
        IN  /\ Len(statuses) = N
            /\ \A i \in 1..N :
                 /\ statuses[i] \in { "OK", "MISMATCH" }
                 /\ statuses[i] = "OK" <=>
                       (Agrees(baseline_results, i) /\ Agrees(fast_results, i))
            /\ (allOK /\ clean) => (Verdict = AllMatch /\ exit_code = << 0 >>)
            /\ ~(allOK /\ clean) => (Verdict = Differences /\ exit_code = << 1 >>)

\* two tests reconciled, the first OK and the second not
C5_Witness ==
    /\ VerdictPrinted
    /\ Len(statuses) = 2
    /\ statuses[1] = "OK"
    /\ statuses[2] = "MISMATCH"
    /\ ~HasError(baseline_results) /\ ~HasError(fast_results)

----------------------------------------------------------------------------
(* C6: the parser takes the lines in order and applies to each only the    *)
(* first rule that matches, in the order PASS, FAIL, Hash: - a line with   *)
(* PASS only increments passed (whatever else it holds), a line with FAIL  *)
(* and no PASS only increments failed, a line with Hash: and neither only  *)
(* appends one hash, and any other line changes nothing.                   *)
C6_StepOK ==
    (results' # results \/ line_no' # line_no) =>
        LET line == split(output, NewLine)[line_no]
            hasPass == Contains(line, TokPass)
            hasFail == Contains(line, TokFail)
            hasHash == Contains(line, TokHash)
        IN  /\ line_no' = line_no + 1
            /\ hasPass =>
                  /\ results'.passed = results.passed + 1
                  /\ results'.failed = results.failed
                  /\ results'.hashes = results.hashes
            /\ (~hasPass /\ hasFail) =>
                  /\ results'.passed = results.passed
                  /\ results'.failed = results.failed + 1
                  /\ results'.hashes = results.hashes
            /\ (~hasPass /\ ~hasFail /\ hasHash) =>
                  /\ results'.passed = results.passed
                  /\ results'.failed = results.failed
                  /\ Len(results'.hashes) = Len(results.hashes) + 1
                  /\ Front(results'.hashes) = results.hashes
            /\ (~hasPass /\ ~hasFail /\ ~hasHash) => results' = results

C6_FirstRuleOnly == [][C6_StepOK]_vars

\* a first line holding both PASS and Hash: has been taken, then a line
\* holding both FAIL and PASS
C6_Witness ==
    /\ pc = "parse"
    /\ line_no = 3
    /\ LET ls == split(output, NewLine)
       IN  /\ Contains(ls[1], TokPass) /\ Contains(ls[1], TokHash)
           /\ Contains(ls[2], TokFail) /\ Contains(ls[2], TokPass)
    /\ results = [passed |-> 2, failed |-> 0, hashes |-> << >>]

----------------------------------------------------------------------------
(* C7: hashes lists, in line order, one entry per line on which the Hash   *)
(* rule fires.                                                             *)

HashRuleFires(line) ==
    /\ ~Contains(line, TokPass)
    /\ ~Contains(line, TokFail)
    /\ Contains(line, TokHash)

\* everything after the first "Hash:"
AfterFirstToken(line) == Drop(line, Find(line, TokHash) + Len(TokHash) - 1)

\* what is after the first "Hash:", up to the next "Hash:" when there is one
UpToNextToken(line) ==
    LET rest == AfterFirstToken(line)
        k == Find(rest, TokHash)
    IN  IF k = 0 THEN rest ELSE SubSeq(rest, 1, k - 1)

\* ASCII lowercase of the text between its first and last non-blank character
Trimmed(s) ==
    LET ink == { k \in 1..Len(s) : s[k] \notin Whitespace }
        lo == CHOOSE k \in ink : \A j \in ink : k <= j
        hi == CHOOSE k \in ink : \A j \in ink : k >= j
    IN  IF ink = {} THEN << >>
        ELSE [k \in 1..(hi - lo + 1) |->
                 LET c == s[lo + k - 1]
                 IN  IF c \in DOMAIN LowerOf THEN LowerOf[c] ELSE c]

\* the entries for the lines ls, in line order: one for each line on which
\* the Hash rule fires, Piece giving the text kept from the line
EntriesOf(ls, Piece(_)) ==
    LET fired == { k \in 1..Len(ls) : HashRuleFires(ls[k]) }
        nth(j) == CHOOSE k \in fired : Cardinality({ i \in fired : i <= k }) = j
    IN  [j \in 1..Cardinality(fired) |-> Trimmed(Piece(ls[nth(j)]))]

LinesTaken == SubSeq(split(output, NewLine), 1, line_no - 1)

\* C7 as claimed: each entry is the whole remainder of the line after the
\* first "Hash:", later occurrences of "Hash:" included, trimmed and lowercased
C7_WholeRemainder ==
    pc \in { "parse", "parse_ret" } =>
        results.hashes = EntriesOf(LinesTaken, AfterFirstToken)

\* C7 as amended: each entry is the text after the first "Hash:" up to the
\* next occurrence of "Hash:" in the line (to the end of the line when there
\* is none), trimmed and lowercased; entries are in line order
C7_UpToNextToken ==
    pc \in { "parse", "parse_ret" } =>
        results.hashes = EntriesOf(LinesTaken, UpToNextToken)

\* a line with text between two occurrences of "Hash:" has been taken after
\* another hash line
C7_Witness ==
    /\ pc = "parse_ret"
    /\ Len(results.hashes) = 2
    /\ results.hashes[2] = << "a", "b" >>
    /\ \E l \in { LinesTaken[k] : k \in 1..Len(LinesTaken) } :
          /\ HashRuleFires(l)
          /\ Contains(AfterFirstToken(l), TokHash)
          /\ UpToNextToken(l) # << >>

----------------------------------------------------------------------------
(* C8: a compile failure, elaborate failure or run timeout of one variant  *)
(* never keeps the other variant from being run: once the run stage was    *)
(* reached and the harness has ended, the driver was invoked for both      *)
(* variants and the summary was printed, with the verdict "Differences     *)
(* detected!" when a phase failed.                                         *)
C8_BothVariantsRun ==
    (exit_code # NotExited /\ calls # << >>) =>
        /\ CallsOf("baseline", "compile") # {}
        /\ CallsOf("fast", "compile") # {}
        /\ VerdictPrinted
        /\ (\E k \in 1..Len(calls) : calls[k].status # "exit0" /\ calls[k].phase # "run")
              => Verdict = Differences
        /\ (\E k \in 1..Len(calls) : calls[k].status = "timeout")
              => Verdict = Differences

----------------------------------------------------------------------------
(* C9: when a test bench of either variant is missing the harness reports  *)
(* it and exits with code 1, with no subprocess invoked for either variant *)
(* and neither a per-test report nor a verdict line.                       *)
C9_MissingTestbench ==
    (~baseline_tb \/ ~fast_tb) =>
        /\ calls = << >>
        /\ statuses = << >>
        /\ ~VerdictPrinted
        /\ baseline_results = NotRun /\ fast_results = NotRun
        /\ pc \in { "generate", "exit" }
        /\ pc = "generate" => exit_code = NotExited
        /\ pc = "exit" =>
              /\ exit_code = << 1 >>
              /\ stdout = << [kind |-> "testbenches not found"] >>

\* only the fast test bench is missing and the harness has exited
C9_Witness ==
    /\ baseline_tb /\ ~fast_tb
    /\ pc = "exit"
    /\ Len(test_cases) = 2
    /\ exit_code = << 1 >>

----------------------------------------------------------------------------
(* C10: the verdict and the exit code depend only on each variant's error  *)
(* marker and on the first N entries of its hashes: results that differ in *)
(* the passed and failed counts or in entries past N give the same verdict *)
(* whatever the run phase's exit status; with no error marker and the      *)
(* first N entries equal to the reference digests the verdict is "All      *)
(* implementations match!", FAIL lines or not, and so it is for N = 0.     *)

FirstN(r, n) == SubSeq(r.hashes, 1, Min(n, Len(r.hashes)))

\* results with the same error marker and the same first n hashes as r
Variants(r, n) ==
    IF HasError(r)
    THEN { r, [error |-> << r.error[1], << >> >>] }
    ELSE { [passed |-> p, failed |-> q, hashes |-> FirstN(r, n) \o extra] :
              p \in { 0, r.passed + 1 }, q \in { 0, r.failed + 1 },
              extra \in { << >> } \cup
                        (IF Len(r.hashes) >= n
                         THEN { << JunkDigest >>, << << >>, JunkDigest >> }
                         ELSE {}) }

C10_VerdictDependsOnPrefix ==
    VerdictPrinted =>
        LET N == Len(test_cases)
            b == baseline_results
            f == fast_results
            prefixOK(r) ==
                /\ ~HasError(r)
                /\ Len(r.hashes) >= N
                /\ \A i \in 1..N : r.hashes[i] = test_cases[i].py_hash
        IN  /\ \A b2 \in Variants(b, N) : \A f2 \in Variants(f, N) :
                 LET s == summarize(test_cases, b2, f2)
                 IN  s.verdict = Verdict /\ << s.code >> = exit_code
            /\ (prefixOK(b) /\ prefixOK(f)) =>
                  (Verdict = AllMatch /\ exit_code = << 0 >>)
            /\ (N = 0 /\ ~HasError(b) /\ ~HasError(f)) => Verdict = AllMatch

\* all match although the baseline printed FAIL lines, the fast variant an
\* extra hash, and a run phase exited with a non-zero status
C10_Witness ==
    /\ VerdictPrinted
    /\ Verdict = AllMatch
    /\ Len(test_cases) = 2
    /\ baseline_results.failed = 2
    /\ Len(fast_results.hashes) = 3
    /\ \E k \in CallsOf("baseline", "run") : calls[k].status = "exit1"

====
